---- MODULE Spec2Model ----
(***************************************************************************)
(* The client store of the task tracker (src/webapp/src/store.js): the     *)
(* reducer, the two epics and the store that wires them, together with the *)
(* API client the epics call, and the page operation of the server         *)
(* (src/api/tasks.js).                                                     *)
(*                                                                         *)
(* Spec is the store as configureStore wires it. The exported functions    *)
(* that the wired store never drives through all their cases have a        *)
(* specification of their own, with their inputs drawn in its Init:        *)
(* SpecReducer (the reducer under any actions), SpecLoadEpic               *)
(* (loadTasksEpic against a store whose status is given) and SpecPages     *)
(* (GET /tasks followed from page to page).                                *)
(*                                                                         *)
(* JavaScript objects are functions from their own property names to       *)
(* values, so that a property that was never set is absent from the        *)
(* domain and an object spread copies exactly the properties present.      *)
(***************************************************************************)
EXTENDS Integers, Sequences, FiniteSets, TLC

VARIABLES
    state,        \* the store's state tree: [newTask, tasks]
    create,       \* per temporary id: the create workflow newTaskEpic runs for it
    pageFetches,  \* GET /tasks requests issued and not yet completed
    applied,      \* SpecReducer: the number of actions given to the reducer
    load,         \* SpecLoadEpic: what loadTasksEpic was given and has emitted
    db,           \* SpecPages: the _id of every record of the tasks collection
    pages         \* SpecPages: the page size asked for and the responses got

vars == <<state, create, pageFetches, applied, load, db, pages>>

----------------------------------------------------------------------------
(* Bounds of the model. *)

\* number of temporary ids, that is, of create workflows in one run
MaxCreates == 2

\* temporary ids are made by the client, permanent ids by the server: one per
\* created record
TempIds == {"t" \o ToString(i) : i \in 1..MaxCreates}
RealIds == {"r" \o ToString(i) : i \in 1..MaxCreates}
Ids == TempIds \cup RealIds

\* texts typed into the new-task field
DraftTexts == {"a"}
\* well-formed edits of a task: they do not set _id
Edits == {[isComplete |-> TRUE]}

----------------------------------------------------------------------------
(* Object helpers. *)

EmptyObject == <<>>

\* { ...a, ...b }
Spread(a, b) ==
    [k \in DOMAIN a \cup DOMAIN b |-> IF k \in DOMAIN b THEN b[k] ELSE a[k]]

\* const { [key]: _, ...rest } = obj
Rest(obj, key) == [k \in DOMAIN obj \ {key} |-> obj[k]]

\* obj[key] as the operand of a spread: spreading undefined copies nothing
PropertyOrEmpty(obj, key) == IF key \in DOMAIN obj THEN obj[key] ELSE EmptyObject

\* { [key]: value }
Single(key, value) == [k \in {key} |-> value]

----------------------------------------------------------------------------
(* Selectors. *)

getNewTaskText(s) == s.newTask.text
getTasksStatus(s) == s.tasks.status

----------------------------------------------------------------------------
(* Action creators. *)

reloadTasks == [type |-> "RELOAD_TASKS"]
tasksReceived(items, nextPageToken) ==
    [type |-> "TASKS_RECEIVED", items |-> items, nextPageToken |-> nextPageToken]
tasksLoadingFailed(message) == [type |-> "TASKS_LOADING_FAILED", message |-> message]
clearNewTask == [type |-> "CLEAR_NEW_TASK"]
editNewTaskText(text) == [type |-> "EDIT_NEW_TASK_TEXT", text |-> text]
createNewTask(temporaryId) == [type |-> "CREATE_NEW_TASK", temporaryId |-> temporaryId]
taskCreated(temporaryId, realId) ==
    [type |-> "TASK_CREATED", temporaryId |-> temporaryId, realId |-> realId]
taskCreateFailed(temporaryId, message) ==
    [type |-> "TASK_CREATE_FAILED", temporaryId |-> temporaryId, message |-> message]
editTask(id, edits) == [type |-> "EDIT_TASK", id |-> id, edits |-> edits]
deleteTask(id) == [type |-> "DELETE_TASK", id |-> id]

----------------------------------------------------------------------------
(* The reducer, one operator per case of its switch. *)

InitialState ==
    [newTask |-> [text |-> ""],
     tasks |-> [status |-> "UNLOADED", items |-> EmptyObject]]

WithTasks(s, tasks) == [s EXCEPT !.tasks = tasks]
WithItems(s, items) == [s EXCEPT !.tasks = Spread(s.tasks, [items |-> items])]

\* a reducer that marks the list as loading and keeps the accumulated items
ReduceReloadTasksKeepsItems(s, payload) ==
    WithTasks(s, [status |-> "LOADING", items |-> s.tasks.items, nextPageToken |-> "null"])

ReduceReloadTasks(s, payload) ==
    WithTasks(s, [status |-> "LOADING", items |-> EmptyObject, nextPageToken |-> "null"])

RECURSIVE StoreItems(_, _)
\* for (const item of list) items[item._id] = item
StoreItems(items, list) ==
    IF list = <<>> THEN items
    ELSE StoreItems(Spread(items, Single(Head(list)._id, Head(list))), Tail(list))

\* a reducer that takes the page received for the whole list
ReduceTasksReceivedReplaces(s, payload) ==
    WithTasks(s, [status |-> "LOADED",
                  items |-> StoreItems(EmptyObject, payload.items),
                  nextPageToken |-> payload.nextPageToken])

ReduceTasksReceived(s, payload) ==
    WithTasks(s, [status |-> "LOADED",
                  items |-> StoreItems(s.tasks.items, payload.items),
                  nextPageToken |-> payload.nextPageToken])

ReduceTasksLoadingFailed(s, payload) ==
    WithTasks(s, Spread(s.tasks, [status |-> "ERROR", lastErrorMessage |-> payload.message]))

ReduceClearNewTask(s, payload) ==
    [s EXCEPT !.newTask = Spread(s.newTask, [text |-> ""])]

ReduceEditNewTaskText(s, payload) ==
    [s EXCEPT !.newTask = [text |-> payload.text]]

ReduceCreateNewTask(s, payload) ==
    WithItems(s, Spread(s.tasks.items,
                        Single(payload.temporaryId,
                               [_id |-> payload.temporaryId,
                                isComplete |-> FALSE,
                                text |-> s.newTask.text,
                                isCreating |-> TRUE])))

\* a reducer that inserts under realId and forgets to drop the temporary entry
ReduceTaskCreatedKeepsTemp(s, payload) ==
    WithItems(s, Spread(s.tasks.items,
                        Single(payload.realId,
                               Spread(PropertyOrEmpty(s.tasks.items, payload.temporaryId),
                                      [_id |-> payload.realId,
                                       isCreating |-> FALSE]))))

ReduceTaskCreated(s, payload) ==
    LET localTask == PropertyOrEmpty(s.tasks.items, payload.temporaryId)
        otherItems == Rest(s.tasks.items, payload.temporaryId)
    IN  WithItems(s, Spread(otherItems,
                            Single(payload.realId,
                                   Spread(localTask,
                                          [_id |-> payload.realId,
                                           isCreating |-> FALSE]))))

\* a rollback that drops every task, not only the one that failed
ReduceTaskCreateFailedDropsAll(s, payload) ==
    WithItems(s, EmptyObject)

\* a rollback that keeps the failure's message in the state, as a failed load does
ReduceTaskCreateFailedKeepsMessage(s, payload) ==
    WithTasks(s, Spread(s.tasks, [items |-> Rest(s.tasks.items, payload.temporaryId),
                                  lastErrorMessage |-> payload.message]))

ReduceTaskCreateFailed(s, payload) ==
    WithItems(s, Rest(s.tasks.items, payload.temporaryId))

ReduceEditTask(s, payload) ==
    WithItems(s, Spread(s.tasks.items,
                        Single(payload.id,
                               Spread(PropertyOrEmpty(s.tasks.items, payload.id),
                                      payload.edits))))

ReduceDeleteTask(s, payload) ==
    WithItems(s, Rest(s.tasks.items, payload.id))

reducer(s, action) ==
    CASE action.type = "RELOAD_TASKS" -> ReduceReloadTasks(s, action)
      [] action.type = "TASKS_RECEIVED" -> ReduceTasksReceived(s, action)
      [] action.type = "TASKS_LOADING_FAILED" -> ReduceTasksLoadingFailed(s, action)
      [] action.type = "CLEAR_NEW_TASK" -> ReduceClearNewTask(s, action)
      [] action.type = "EDIT_NEW_TASK_TEXT" -> ReduceEditNewTaskText(s, action)
      [] action.type = "CREATE_NEW_TASK" -> ReduceCreateNewTask(s, action)
      [] action.type = "TASK_CREATED" -> ReduceTaskCreated(s, action)
      [] action.type = "TASK_CREATE_FAILED" -> ReduceTaskCreateFailed(s, action)
      [] action.type = "EDIT_TASK" -> ReduceEditTask(s, action)
      [] action.type = "DELETE_TASK" -> ReduceDeleteTask(s, action)
      [] OTHER -> s

----------------------------------------------------------------------------
(* The API client: what a POST /tasks can come back with. *)

NetworkError == [fetch |-> "rejected"]
HttpError == [fetch |-> "resolved", ok |-> FALSE]
Undecodable == [fetch |-> "resolved", ok |-> TRUE, json |-> "none"]
Decoded(body) == [fetch |-> "resolved", ok |-> TRUE, json |-> "object", body |-> body]

HasItemId(response) ==
    /\ response.fetch = "resolved"
    /\ response.ok
    /\ response.json = "object"
    /\ "item" \in DOMAIN response.body
    /\ "_id" \in DOMAIN response.body.item

\* the permanent ids delivered to the client so far
AssignedIds ==
    {create[t].response.body.item._id :
        t \in {u \in TempIds : create[u].pc = "done" /\ HasItemId(create[u].response)}}

\* the server gives every inserted record a fresh id
NextRealId == "r" \o ToString(Cardinality(AssignedIds) + 1)

CreateResponses ==
    {NetworkError, HttpError,
     Undecodable,                      \* the body is not JSON (response.json() rejects)
                                       \* or is the JSON value null
     Decoded(EmptyObject),             \* no item
     Decoded([item |-> EmptyObject]),  \* an item without _id
     Decoded([item |-> [_id |-> NextRealId]])}

----------------------------------------------------------------------------
(* The epics. *)

\* an epic that fetches on every RELOAD_TASKS, whatever the status
LoadTasksEpicFetchesUnguarded(s, action) ==
    IF action.type # "RELOAD_TASKS" THEN 0 ELSE 1

\* loadTasksEpic: the number of GET /tasks it issues for an action, given the
\* state getState() returns when the action reaches the epic
LoadTasksEpicFetches(s, action) ==
    IF action.type # "RELOAD_TASKS" THEN 0
    ELSE IF getTasksStatus(s) = "LOADING" THEN 0
    ELSE 1

\* a promise chain that takes a response without item or _id for a failure
CreateOutcomeMalformedFails(temporaryId, response) ==
    IF response.fetch = "rejected" THEN taskCreateFailed(temporaryId, "Network Error")
    ELSE IF ~response.ok THEN taskCreateFailed(temporaryId, "HTTP Error")
    ELSE IF response.json # "object" THEN taskCreateFailed(temporaryId, "TypeError")
    ELSE IF "item" \notin DOMAIN response.body THEN taskCreateFailed(temporaryId, "TypeError")
    ELSE IF "_id" \notin DOMAIN response.body.item THEN taskCreateFailed(temporaryId, "TypeError")
    ELSE taskCreated(temporaryId, response.body.item._id)

\* newTaskEpic, the promise chain on the POST: the action it ends with
CreateOutcome(temporaryId, response) ==
    IF response.fetch = "rejected" THEN taskCreateFailed(temporaryId, "Network Error")
    ELSE IF ~response.ok THEN taskCreateFailed(temporaryId, "HTTP Error")
    ELSE IF response.json # "object" THEN taskCreateFailed(temporaryId, "TypeError")
    ELSE IF "item" \notin DOMAIN response.body THEN reloadTasks
    ELSE IF "_id" \notin DOMAIN response.body.item THEN reloadTasks
    ELSE taskCreated(temporaryId, response.body.item._id)

IdleWorkflow ==
    [pc |-> "idle", text |-> "", emitted |-> <<>>, response |-> [fetch |-> "pending"]]

\* an epic that reads the text for the POST once its clearNewTask() is applied
StartedWorkflowReadsClearedText(s) ==
    [pc |-> "clear", text |-> getNewTaskText(ReduceClearNewTask(s, clearNewTask)),
     emitted |-> <<>>, response |-> [fetch |-> "pending"]]

\* newTaskEpic, the mergeMap callback: the POST is issued with the text
\* getState() holds when the action reaches the epic, and the promise of
\* clearNewTask() is already resolved
StartedWorkflow(s) ==
    [pc |-> "clear", text |-> getNewTaskText(s), emitted |-> <<>>,
     response |-> [fetch |-> "pending"]]

NewTaskEpic(cr, s, action) ==
    IF action.type = "CREATE_NEW_TASK"
    THEN [cr EXCEPT ![action.temporaryId] = StartedWorkflow(s)]
    ELSE cr

----------------------------------------------------------------------------
(* The store: the reducer is applied to the action, then the epics see it. *)

Dispatch(action, cr) ==
    LET next == reducer(state, action)
    IN  /\ state' = next
        /\ pageFetches' = pageFetches + LoadTasksEpicFetches(next, action)
        /\ create' = NewTaskEpic(cr, next, action)
        /\ UNCHANGED <<applied, load, db, pages>>

\* a resolved promise's callback runs before any other event is handled
MicrotaskPending == \E t \in TempIds : create[t].pc = "clear"

\* temporary ids are unique in a session: the caller makes a new one per task
NextTempId == "t" \o ToString(Cardinality({t \in TempIds : create[t].pc # "idle"}) + 1)

\* the ids the user interface has shown: only these can be edited or deleted
KnownIds == {t \in TempIds : create[t].pc # "idle"} \cup AssignedIds

\* the parts of the model a specification does not use
NoReducerRun == applied = 0
NoLoadEpicRun == load = [status |-> "UNLOADED", reloads |-> 0, responses |-> <<>>, emitted |-> <<>>]
NoServer == db = {} /\ pages = [query |-> <<>>, responses |-> <<>>]

Init ==
    /\ state = InitialState
    /\ create = [t \in TempIds |-> IdleWorkflow]
    /\ pageFetches = 0
    /\ NoReducerRun
    /\ NoLoadEpicRun
    /\ NoServer

DispatchReloadTasks ==
    /\ ~MicrotaskPending
    /\ Dispatch(reloadTasks, create)

DispatchEditNewTaskText(text) ==
    /\ ~MicrotaskPending
    /\ Dispatch(editNewTaskText(text), create)

DispatchCreateNewTask(t) ==
    /\ ~MicrotaskPending
    /\ t = NextTempId
    /\ Dispatch(createNewTask(t), create)

DispatchEditTask(id, edits) ==
    /\ ~MicrotaskPending
    /\ id \in KnownIds
    /\ Dispatch(editTask(id, edits), create)

DispatchDeleteTask(id) ==
    /\ ~MicrotaskPending
    /\ id \in KnownIds
    /\ Dispatch(deleteTask(id), create)

\* newTaskEpic emits the resolved clearNewTask()
EmitClearNewTask(t) ==
    /\ create[t].pc = "clear"
    /\ Dispatch(clearNewTask,
                [create EXCEPT ![t].pc = "inflight",
                               ![t].emitted = Append(@, clearNewTask)])

\* the POST completes and newTaskEpic emits what its promise chain ends with
CreateRequestCompletes(t, response) ==
    /\ ~MicrotaskPending
    /\ create[t].pc = "inflight"
    /\ LET outcome == CreateOutcome(t, response)
       IN  Dispatch(outcome,
                    [create EXCEPT ![t].pc = "done",
                                   ![t].response = response,
                                   ![t].emitted = Append(@, outcome)])

UserReloadTasks == DispatchReloadTasks
UserEditNewTaskText == \E text \in DraftTexts : DispatchEditNewTaskText(text)
UserCreateNewTask == \E t \in TempIds : DispatchCreateNewTask(t)
UserEditTask == \E id \in Ids, edits \in Edits : DispatchEditTask(id, edits)
UserDeleteTask == \E id \in Ids : DispatchDeleteTask(id)
ClearNewTaskEmitted == \E t \in TempIds : EmitClearNewTask(t)
CreateRequestDone == \E t \in TempIds, response \in CreateResponses : CreateRequestCompletes(t, response)

Next ==
    \/ UserReloadTasks
    \/ UserEditNewTaskText
    \/ UserCreateNewTask
    \/ UserEditTask
    \/ UserDeleteTask
    \/ ClearNewTaskEmitted
    \/ CreateRequestDone

Spec == Init /\ [][Next]_vars


----------------------------------------------------------------------------
(* Vocabulary of the properties. *)

Items == state.tasks.items

\* both objects lack the property, or both have it with the same value
SameProperty(a, b, key) ==
    /\ key \in DOMAIN a <=> key \in DOMAIN b
    /\ key \in DOMAIN a => a[key] = b[key]

\* every entry of the items map other than those under skip is the same in
\* old and new: none added, none removed, none altered
OthersUnchanged(old, new, skip) ==
    \A k \in (DOMAIN old \cup DOMAIN new) \ skip :
        /\ k \in DOMAIN old
        /\ k \in DOMAIN new
        /\ old[k] = new[k]

Emitted(t, action) ==
    /\ create[t].pc = "done"
    /\ create[t].emitted[Len(create[t].emitted)] = action

----------------------------------------------------------------------------
(* Steps of the store, as the properties name them. *)

\* the response has a body that decodes to an object, without an item or with
\* an item that has no _id
Malformed(response) ==
    /\ response.fetch = "resolved"
    /\ response.ok
    /\ response.json = "object"
    /\ ~HasItemId(response)

\* this step is CreateRequestCompletes(t, response) for the response the
\* workflow of t records: no other step takes a workflow from inflight to done
Completed(t) == create[t].pc = "inflight" /\ create'[t].pc = "done"

\* the response and the outcome action of the step Completed(t)
ResponseOf(t) == create'[t].response
OutcomeOf(t) == create'[t].emitted[Len(create'[t].emitted)]

\* this step is EmitClearNewTask(t)
Cleared(t) == create[t].pc = "clear" /\ create'[t].pc = "inflight"

\* this step applies a RELOAD_TASKS, dispatched by the user or emitted by a
\* create workflow
ReloadDispatched ==
    \/ \E t \in TempIds : Completed(t) /\ OutcomeOf(t) = reloadTasks
    \/ DispatchReloadTasks

----------------------------------------------------------------------------
(* C1: when a task is under temporary id T, applying CreateConfirmed(T, R)  *)
(* leaves no entry under T and an entry under R with _id = R and            *)
(* isCreating = false whose text and isComplete are those the entry under T *)
(* had, and every other entry of items is unchanged.                        *)
C1_CreateConfirmedRenames ==
    [][\A t \in TempIds :
          ( /\ Completed(t)
            /\ OutcomeOf(t).type = "TASK_CREATED"
            /\ t \in DOMAIN Items )
          => LET r == OutcomeOf(t).realId
                 old == Items
                 new == Items'
             IN  /\ t \notin DOMAIN new
                 /\ r \in DOMAIN new
                 /\ new[r]._id = r
                 /\ new[r].isCreating = FALSE
                 /\ SameProperty(old[t], new[r], "text")
                 /\ SameProperty(old[t], new[r], "isComplete")
                 /\ OthersUnchanged(old, new, {t, r})]_vars

\* a create was confirmed: the task typed as "a" is now under its permanent
\* id, not pending, its temporary id is gone, and another task is still there
C1_Witness ==
    \E t \in TempIds, r \in RealIds :
        /\ Emitted(t, taskCreated(t, r))
        /\ create[t].text = "a"
        /\ t \notin DOMAIN Items
        /\ r \in DOMAIN Items
        /\ Items[r] = [_id |-> r, isComplete |-> FALSE, text |-> "a", isCreating |-> FALSE]
        /\ \E k \in DOMAIN Items : k # r


----------------------------------------------------------------------------
(* C2: a RequestReload dispatched while the status is Unloaded, Loaded or   *)
(* Error makes the reload workflow issue exactly one page fetch, the        *)
(* reducer being applied before the workflow reads the status.              *)
C2_ReloadIssuesOneFetch ==
    [][(ReloadDispatched /\ getTasksStatus(state) # "LOADING")
          => pageFetches' = pageFetches + 1]_vars

----------------------------------------------------------------------------
(* C3: in every reachable state, a temporary id T and the permanent id R   *)
(* the server assigned to the task created as T are not both keys of items. *)
C3_TempAndPermanentNeverBoth ==
    \A t \in TempIds, r \in RealIds :
        Emitted(t, taskCreated(t, r)) => ~(t \in DOMAIN Items /\ r \in DOMAIN Items)

----------------------------------------------------------------------------
(* C4: applying CreateConfirmed(T, R) when T is not a key of items leaves   *)
(* the whole state unchanged: nothing is inserted under R.                  *)
C4_CreateConfirmedAbsentIsNoOp ==
    [][\A t \in TempIds :
          ( /\ Completed(t)
            /\ OutcomeOf(t).type = "TASK_CREATED"
            /\ t \notin DOMAIN Items )
          => state' = state]_vars

----------------------------------------------------------------------------
(* C5: when the create request of T succeeds with a malformed response, the *)
(* workflow dispatches RequestReload and the optimistic task under T stays  *)
(* in items from that dispatch on, until the reload resolves.               *)
C5_OptimisticTaskSurvivesReload ==
    [][\A t \in TempIds :
          ( /\ Completed(t)
            /\ Malformed(ResponseOf(t))
            /\ t \in DOMAIN Items )
          => /\ OutcomeOf(t) = reloadTasks
             /\ t \in DOMAIN Items']_vars

(* C5, amended: when the create request of T succeeds with a malformed      *)
(* response, the workflow dispatches RequestReload, and applying it removes *)
(* the optimistic task under T at once, with every other entry: items is    *)
(* empty and the status is Loading before any reload result is applied.     *)
C5_ReloadDiscardsOptimisticTask ==
    [][\A t \in TempIds :
          ( /\ Completed(t)
            /\ Malformed(ResponseOf(t)) )
          => /\ OutcomeOf(t) = reloadTasks
             /\ Items' = EmptyObject
             /\ getTasksStatus(state') = "LOADING"]_vars

\* a create of the text "a" got a response without item after another create
\* was confirmed: the reload was dispatched and both tasks are gone
C5_Witness ==
    \E t \in TempIds, u \in TempIds, r \in RealIds :
        /\ Emitted(t, reloadTasks)
        /\ Malformed(create[t].response)
        /\ create[t].text = "a"
        /\ Emitted(u, taskCreated(u, r))
        /\ Items = EmptyObject
        /\ getTasksStatus(state) = "LOADING"

----------------------------------------------------------------------------
(* C6: two page fetches are never in flight, and a RequestReload applied    *)
(* while the status is Loading issues no fetch.                             *)
C6_NoSecondFetch ==
    /\ [](pageFetches <= 1)
    /\ [][(ReloadDispatched /\ getTasksStatus(state) = "LOADING")
             => pageFetches' = pageFetches]_vars

\* two create workflows ended in RELOAD_TASKS, and the second of them was
\* applied while the first had set the status to Loading
C6_Witness ==
    \E t \in TempIds, u \in TempIds :
        /\ t # u
        /\ Emitted(t, reloadTasks)
        /\ Emitted(u, reloadTasks)
        /\ getTasksStatus(state) = "LOADING"
        /\ pageFetches <= 1


----------------------------------------------------------------------------
(* C7: a create workflow changes only the items entries under its own       *)
(* temporary id and the permanent id it is confirmed with: whatever its     *)
(* outcome, it adds, removes or alters no entry of another task.            *)

\* the ids a create workflow may touch when it ends with the action outcome
OwnIds(t, outcome) ==
    IF outcome.type = "TASK_CREATED" THEN {t, outcome.realId} ELSE {t}

C7_CreateTouchesOwnEntriesOnly ==
    [][\A t \in TempIds :
          /\ Cleared(t) => OthersUnchanged(Items, Items', {t})
          /\ Completed(t) => OthersUnchanged(Items, Items', OwnIds(t, OutcomeOf(t)))]_vars

(* C7, amended: the ClearDraft of a create workflow and its confirmed and   *)
(* failed outcomes add, remove or alter no items entry other than those     *)
(* under its own temporary id and the permanent id it is confirmed with;    *)
(* its malformed-response outcome dispatches RequestReload, which removes   *)
(* every entry, those of other tasks included.                              *)
C7_OnlyReloadTouchesOtherEntries ==
    [][\A t \in TempIds :
          /\ Cleared(t) => OthersUnchanged(Items, Items', {t})
          /\ Completed(t) =>
               IF OutcomeOf(t).type \in {"TASK_CREATED", "TASK_CREATE_FAILED"}
               THEN OthersUnchanged(Items, Items', OwnIds(t, OutcomeOf(t)))
               ELSE /\ Malformed(ResponseOf(t))
                    /\ OutcomeOf(t) = reloadTasks
                    /\ Items' = EmptyObject]_vars

\* the second create has failed and was rolled back while the first, begun
\* before it, is still in flight with its optimistic task as inserted
C7_Witness ==
    /\ Emitted("t2", taskCreateFailed("t2", "HTTP Error"))
    /\ "t2" \notin DOMAIN Items
    /\ create["t1"].pc = "inflight"
    /\ create["t1"].text = "a"
    /\ "t1" \in DOMAIN Items
    /\ Items["t1"] = [_id |-> "t1", isComplete |-> FALSE, text |-> "a", isCreating |-> TRUE]

----------------------------------------------------------------------------
(* C8: applying EditTask(id, patch) when id is not a key of items leaves    *)
(* the whole state unchanged: no entry is created under id.                 *)
C8_EditAbsentIsNoOp ==
    [][\A id \in Ids, edits \in Edits :
          (DispatchEditTask(id, edits) /\ id \notin DOMAIN Items)
          => state' = state]_vars

----------------------------------------------------------------------------
(* C9: every BeginCreate(T) makes the create workflow dispatch exactly one  *)
(* ClearDraft, before the request's outcome and whatever it is, and exactly *)
(* one outcome action when the request completes: CreateConfirmed(T, id)    *)
(* for a successful response with an item that has an id, RequestReload for *)
(* a successful response without item or without id, CreateFailed(T, ...)   *)
(* for a status that is not 2xx or a network failure (and, in this code,    *)
(* for a 2xx body that does not decode to an object).                       *)
C9_OneClearOneOutcome ==
    \A t \in TempIds :
        LET w == create[t]
        IN  /\ w.pc \in {"idle", "clear"} => w.emitted = <<>>
            /\ w.pc = "inflight" => w.emitted = <<clearNewTask>>
            /\ w.pc = "done" =>
                 /\ Len(w.emitted) = 2
                 /\ w.emitted[1] = clearNewTask
                 /\ HasItemId(w.response) =>
                      w.emitted[2] = taskCreated(t, w.response.body.item._id)
                 /\ Malformed(w.response) => w.emitted[2] = reloadTasks
                 /\ (~HasItemId(w.response) /\ ~Malformed(w.response)) =>
                      /\ w.emitted[2].type = "TASK_CREATE_FAILED"
                      /\ w.emitted[2].temporaryId = t

\* one state shows a confirmed create and a create that met a network
\* failure, each with its ClearDraft first and its one outcome second
C9_Witness ==
    \E t \in TempIds, u \in TempIds, r \in RealIds :
        /\ create[t].emitted = <<clearNewTask, taskCreated(t, r)>>
        /\ create[u].emitted = <<clearNewTask, taskCreateFailed(u, "Network Error")>>
        /\ create[u].response = NetworkError
        /\ getNewTaskText(state) = ""

----------------------------------------------------------------------------
(* C10: when a task is under T, applying CreateFailed(T) removes the entry  *)
(* under T and leaves every other items entry, the status, the cursor and   *)
(* the draft text unchanged: the draft cleared at submission is not         *)
(* restored and no error message is stored in the state.                    *)
C10_CreateFailedRollsBack ==
    [][\A t \in TempIds :
          ( /\ Completed(t)
            /\ OutcomeOf(t).type = "TASK_CREATE_FAILED"
            /\ t \in DOMAIN Items )
          => /\ t \notin DOMAIN Items'
             /\ OthersUnchanged(Items, Items', {t})
             /\ Rest(state'.tasks, "items") = Rest(state.tasks, "items")
             /\ state'.newTask = state.newTask]_vars

\* the create of the text "a" failed after a reload had set a cursor: its
\* task is gone, the draft is still empty, the status and cursor are as the
\* reload left them and a confirmed task is in items
C10_Witness ==
    \E t \in TempIds, r \in RealIds :
        /\ Emitted(t, taskCreateFailed(t, "HTTP Error"))
        /\ create[t].text = "a"
        /\ t \notin DOMAIN Items
        /\ getNewTaskText(state) = ""
        /\ state.tasks.status = "LOADING"
        /\ state.tasks.nextPageToken = "null"
        /\ r \in DOMAIN Items


----------------------------------------------------------------------------
(* The reducer on its own: any actions the action creators can build are   *)
(* given to it one after the other, starting from its default state.       *)

MaxActions == 4

\* the tasks GET /tasks sends: records as POST /tasks stored them
ReceivedTasks == {[_id |-> r, isComplete |-> FALSE, text |-> "a"] : r \in RealIds}

\* the pages of a response: no _id twice, as _id is the key of the collection
ReceivedPages ==
    {<<>>} \cup {<<x>> : x \in ReceivedTasks}
           \cup {p \in ReceivedTasks \X ReceivedTasks : p[1]._id # p[2]._id}

PageTokens == {"null", "token"}

Messages == {"Network Error"}

ReducerActions ==
    {reloadTasks, clearNewTask}
        \cup {tasksReceived(items, token) : items \in ReceivedPages, token \in PageTokens}
        \cup {tasksLoadingFailed(message) : message \in Messages}
        \cup {editNewTaskText(text) : text \in DraftTexts}
        \cup {createNewTask(t) : t \in TempIds}
        \cup {taskCreated(t, r) : t \in TempIds, r \in RealIds}
        \cup {taskCreateFailed(t, message) : t \in TempIds, message \in Messages}
        \cup {editTask(id, edits) : id \in Ids, edits \in Edits}
        \cup {deleteTask(id) : id \in Ids}

InitReducer ==
    /\ state = InitialState
    /\ applied = 0
    /\ create = [t \in TempIds |-> IdleWorkflow]
    /\ pageFetches = 0
    /\ NoLoadEpicRun
    /\ NoServer

ReducerApplies(action) ==
    /\ applied < MaxActions
    /\ state' = reducer(state, action)
    /\ applied' = applied + 1
    /\ UNCHANGED <<create, pageFetches, load, db, pages>>

ReducerStep == \E action \in ReducerActions : ReducerApplies(action)

SpecReducer == InitReducer /\ [][ReducerStep]_vars

(***************************************************************************)
(* C11: TASKS_RECEIVED merges the page into items instead of replacing     *)
(* them: an entry whose id is not in the page is kept as it was, every     *)
(* item of the page is stored under its _id in place of what was there,    *)
(* the status becomes LOADED and nextPageToken the token received. It      *)
(* removes no entry; RELOAD_TASKS is what empties items.                   *)
(***************************************************************************)
PageIds(items) == {items[i]._id : i \in 1..Len(items)}

C11_PageReceivedMerges ==
    [][/\ \A items \in ReceivedPages, token \in PageTokens :
              ReducerApplies(tasksReceived(items, token)) =>
                  /\ OthersUnchanged(Items, Items', PageIds(items))
                  /\ \A i \in 1..Len(items) :
                         /\ items[i]._id \in DOMAIN Items'
                         /\ Items'[items[i]._id] = items[i]
                  /\ DOMAIN Items' = DOMAIN Items \cup PageIds(items)
                  /\ state'.tasks.status = "LOADED"
                  /\ state'.tasks.nextPageToken = token
       /\ ReducerApplies(reloadTasks) => Items' = EmptyObject]_vars

\* a page has been added to the task created before it and to the task of
\* an earlier page
C11_Witness ==
    /\ state.tasks.status = "LOADED"
    /\ state.tasks.nextPageToken = "token"
    /\ \E t \in TempIds, r, q \in RealIds :
           /\ r # q
           /\ DOMAIN Items = {t, r, q}
           /\ Items[t] = [_id |-> t, isComplete |-> FALSE, text |-> "a", isCreating |-> TRUE]
           /\ Items[r] \in ReceivedTasks
           /\ Items[q] \in ReceivedTasks


----------------------------------------------------------------------------
(* The server: GET /tasks (src/api/tasks.js) and the page tokens           *)
(* (src/api/util.js). An ObjectID is the sequence of its hexadecimal       *)
(* digits, a page token the sequence of its characters; null, the absence  *)
(* of a token, is the empty sequence, which the handler's || takes for     *)
(* null as well.                                                           *)

MaxRecords == 4
MaxPageSize == 2
MaxRequests == 4

Null == <<>>

\* the ObjectID of the n-th record inserted: ids grow with the insertion
ObjectID(n) ==
    [i \in 1..24 |-> IF i = 24 THEN n % 16 ELSE IF i = 23 THEN (n \div 16) % 16
                     ELSE IF i \in {1, 3} THEN 15 ELSE IF i = 2 THEN 11 ELSE 0]

Records == {[_id |-> ObjectID(n), isComplete |-> FALSE, text |-> "a"] : n \in 1..MaxRecords}

\* Buffer.from(hex, "hex") and buffer.toString("hex")
HexToBytes(hex) == [i \in 1..(Len(hex) \div 2) |-> 16 * hex[2 * i - 1] + hex[2 * i]]
BytesToHex(bytes) ==
    [i \in 1..(2 * Len(bytes)) |->
        IF i % 2 = 1 THEN bytes[(i + 1) \div 2] \div 16 ELSE bytes[i \div 2] % 16]

\* base64 of a buffer of whole groups of three bytes (an ObjectID has four)
Base64Chars ==
    <<"A", "B", "C", "D", "E", "F", "G", "H", "I", "J", "K", "L", "M",
      "N", "O", "P", "Q", "R", "S", "T", "U", "V", "W", "X", "Y", "Z",
      "a", "b", "c", "d", "e", "f", "g", "h", "i", "j", "k", "l", "m",
      "n", "o", "p", "q", "r", "s", "t", "u", "v", "w", "x", "y", "z",
      "0", "1", "2", "3", "4", "5", "6", "7", "8", "9", "+", "/">>

Group(bytes, g) == 65536 * bytes[3 * g + 1] + 256 * bytes[3 * g + 2] + bytes[3 * g + 3]

BytesToBase64(bytes) ==
    [i \in 1..(4 * (Len(bytes) \div 3)) |->
        LET g == (i - 1) \div 4
            k == (i - 1) % 4
            shift == IF k = 0 THEN 262144 ELSE IF k = 1 THEN 4096 ELSE IF k = 2 THEN 64 ELSE 1
        IN  Base64Chars[((Group(bytes, g) \div shift) % 64) + 1]]

Base64Value(char) == (CHOOSE i \in 1..Len(Base64Chars) : Base64Chars[i] = char) - 1

Base64ToBytes(base64) ==
    [i \in 1..(3 * (Len(base64) \div 4)) |->
        LET g == (i - 1) \div 3
            k == (i - 1) % 3
            group == 262144 * Base64Value(base64[4 * g + 1]) + 4096 * Base64Value(base64[4 * g + 2])
                         + 64 * Base64Value(base64[4 * g + 3]) + Base64Value(base64[4 * g + 4])
            shift == IF k = 0 THEN 65536 ELSE IF k = 1 THEN 256 ELSE 1
        IN  (group \div shift) % 256]

\* urlsafe-base64: + and / are written - and _ (an ObjectID needs no padding)
UrlSafe(char) == IF char = "+" THEN "-" ELSE IF char = "/" THEN "_" ELSE char
UrlUnsafe(char) == IF char = "-" THEN "+" ELSE IF char = "_" THEN "/" ELSE char

idToBase64(id) ==
    LET base64 == BytesToBase64(HexToBytes(id))
    IN  [i \in 1..Len(base64) |-> UrlSafe(base64[i])]

base64ToId(base64) ==
    BytesToHex(Base64ToBytes([i \in 1..Len(base64) |-> UrlUnsafe(base64[i])]))

\* the order of ObjectIDs: that of their bytes, first difference first
IdBelow(a, b) ==
    \E i \in 1..Len(a) :
        /\ a[i] < b[i]
        /\ \A j \in 1..(i - 1) : a[j] = b[j]

DefaultPageSize == 10

\* +request.query.pageSize || 10
PageSizeOf(query) ==
    IF "pageSize" \notin DOMAIN query THEN DefaultPageSize
    ELSE IF query.pageSize = 0 THEN DefaultPageSize
    ELSE query.pageSize

\* request.query.pageToken || null
PageTokenOf(query) == IF "pageToken" \in DOMAIN query THEN query.pageToken ELSE Null

\* tasksCollection.find(...)
Find(collection, query) ==
    IF PageTokenOf(query) # Null
    THEN {record \in collection : ~IdBelow(record._id, base64ToId(PageTokenOf(query)))}
    ELSE collection

RECURSIVE SortDescending(_)
\* .sort("_id", -1)
SortDescending(records) ==
    IF records = {} THEN <<>>
    ELSE LET top == CHOOSE r \in records : \A o \in records : ~IdBelow(r._id, o._id)
         IN  <<top>> \o SortDescending(records \ {top})

\* .limit(n)
Limit(list, n) == SubSeq(list, 1, IF Len(list) < n THEN Len(list) ELSE n)

\* a read that stops at the end of the page
ReadTasksOfPageOnly(collection, query) ==
    Limit(SortDescending(Find(collection, query)), PageSizeOf(query))

ReadTasks(collection, query) ==
    Limit(SortDescending(Find(collection, query)), PageSizeOf(query) + 1)

\* GET /tasks: the body of the response
GetTasks(collection, query) ==
    LET pageSize == PageSizeOf(query)
        readTasks == ReadTasks(collection, query)
        items == Limit(readTasks, pageSize)
    IN  [items |-> items,
         nextPageToken |-> IF Len(readTasks) > pageSize
                           THEN idToBase64(readTasks[pageSize + 1]._id)
                           ELSE Null]

\* the queries of a first request: pageSize is left out or given, 0 included
FirstQueries == {EmptyObject} \cup {[pageSize |-> n] : n \in 0..MaxPageSize}

\* the query of the i-th request of a client that follows the tokens
QueryOf(i) ==
    IF i = 1 THEN pages.query
    ELSE Spread(pages.query, [pageToken |-> pages.responses[i - 1].nextPageToken])

InitPages ==
    /\ db \in SUBSET Records
    /\ pages \in [query : FirstQueries, responses : {<<>>}]
    /\ state = InitialState
    /\ create = [t \in TempIds |-> IdleWorkflow]
    /\ pageFetches = 0
    /\ NoReducerRun
    /\ NoLoadEpicRun

\* the client asks for the first page, or for the page the last token names
RequestPage ==
    LET n == Len(pages.responses)
    IN  /\ n < MaxRequests
        /\ n > 0 => pages.responses[n].nextPageToken # Null
        /\ pages' = [pages EXCEPT !.responses = Append(@, GetTasks(db, QueryOf(n + 1)))]
        /\ UNCHANGED <<state, create, pageFetches, applied, load, db>>

SpecPages == InitPages /\ [][RequestPage]_vars

(***************************************************************************)
(* C12: a response of GET /tasks with page size N holds, of the records    *)
(* the request matches, the N greatest in descending order of _id and the  *)
(* token of the next greatest when there are more than N of them, and all  *)
(* of them in descending order with a null token otherwise.                *)
(***************************************************************************)
ItemIds(response) == {response.items[i]._id : i \in 1..Len(response.items)}

Descending(items) ==
    \A i \in 1..(Len(items) - 1) : IdBelow(items[i + 1]._id, items[i]._id)

C12_PageIsFirstNAndToken ==
    \A i \in 1..Len(pages.responses) :
        LET response == pages.responses[i]
            N == PageSizeOf(QueryOf(i))
            matched == Find(db, QueryOf(i))
            rest == {r \in matched : r._id \notin ItemIds(response)}
        IN  /\ Descending(response.items)
            /\ \A j \in 1..Len(response.items) : response.items[j] \in matched
            /\ \A r \in rest : \A id \in ItemIds(response) : IdBelow(r._id, id)
            /\ IF Cardinality(matched) > N
               THEN /\ Len(response.items) = N
                    /\ response.nextPageToken # Null
                    /\ \E next \in rest :
                           /\ \A r \in rest : ~IdBelow(next._id, r._id)
                           /\ base64ToId(response.nextPageToken) = next._id
               ELSE /\ Len(response.items) = Cardinality(matched)
                    /\ response.nextPageToken = Null

\* a page of two of four records, with the token of the third
C12_Witness ==
    /\ Len(pages.responses) > 0
    /\ PageSizeOf(pages.query) = 2
    /\ Cardinality(db) = 4
    /\ pages.responses[1].nextPageToken # Null
    /\ base64ToId(pages.responses[1].nextPageToken) = ObjectID(2)

(***************************************************************************)
(* C17: a client that asks for the first page and then for the page of     *)
(* each token it is given gets no record twice, gets every record once in  *)
(* descending order of _id, and is done, with a null token, after at most  *)
(* as many requests as there are records.                                  *)
(***************************************************************************)
RECURSIVE AllItems(_)
AllItems(n) == IF n = 0 THEN <<>> ELSE AllItems(n - 1) \o pages.responses[n].items

C17_PagesCoverRecordsOnce ==
    LET n == Len(pages.responses)
        items == AllItems(n)
    IN  /\ \A i, j \in 1..Len(items) : i # j => items[i]._id # items[j]._id
        /\ Descending(items)
        /\ n > 0 /\ pages.responses[n].nextPageToken = Null
               => {items[i] : i \in 1..Len(items)} = db
        /\ n > 1 => n <= Cardinality(db)


----------------------------------------------------------------------------
(* loadTasksEpic on its own: RELOAD_TASKS actions reach it while the store *)
(* it reads has any status, and the GET /tasks requests it issues are      *)
(* answered in any way the API client can answer.                          *)

MaxReloads == 2

Statuses == {"UNLOADED", "LOADING", "LOADED", "ERROR"}

\* a value of the decoded body: Array.isArray tells the two apart
ArrayValue(elements) == [isArray |-> TRUE, elements |-> elements]
OtherValue == [isArray |-> FALSE]

PageBodies ==
    LET items == {EmptyObject} \cup {[items |-> v] : v \in {OtherValue, ArrayValue(<<>>)}}
                     \cup {[items |-> ArrayValue(<<x>>)] : x \in ReceivedTasks}
        token == {EmptyObject} \cup {[nextPageToken |-> t] : t \in PageTokens}
    IN  {Spread(i, t) : i \in items, t \in token}

PageResponses == {NetworkError, HttpError, Undecodable} \cup {Decoded(body) : body \in PageBodies}

\* a promise chain that takes a body without an items array for a failure
LoadOutcomeInvalidItemsFails(response) ==
    IF response.fetch = "rejected" THEN tasksLoadingFailed("Network Error")
    ELSE IF ~response.ok THEN tasksLoadingFailed("HTTP Error")
    ELSE IF response.json # "object" THEN tasksLoadingFailed("TypeError")
    ELSE IF "items" \notin DOMAIN response.body THEN tasksLoadingFailed("TypeError")
    ELSE IF ~response.body.items.isArray THEN tasksLoadingFailed("TypeError")
    ELSE IF "nextPageToken" \notin DOMAIN response.body
         THEN tasksReceived(response.body.items.elements, "null")
    ELSE tasksReceived(response.body.items.elements, response.body.nextPageToken)

\* loadTasksEpic, the promise chain on the GET: the action it ends with
LoadOutcome(response) ==
    IF response.fetch = "rejected" THEN tasksLoadingFailed("Network Error")
    ELSE IF ~response.ok THEN tasksLoadingFailed("HTTP Error")
    ELSE IF response.json # "object" THEN tasksLoadingFailed("TypeError")
    ELSE IF "items" \notin DOMAIN response.body THEN tasksReceived(<<>>, "null")
    ELSE IF ~response.body.items.isArray THEN tasksReceived(<<>>, "null")
    ELSE IF "nextPageToken" \notin DOMAIN response.body
         THEN tasksReceived(response.body.items.elements, "null")
    ELSE tasksReceived(response.body.items.elements, response.body.nextPageToken)

InitLoadEpic ==
    /\ NoLoadEpicRun
    /\ pageFetches = 0
    /\ state = InitialState
    /\ create = [t \in TempIds |-> IdleWorkflow]
    /\ NoReducerRun
    /\ NoServer

\* a RELOAD_TASKS reaches the epic while getState() has the given status
LoadEpicGetsReload(status) ==
    /\ load.reloads < MaxReloads
    /\ load' = [load EXCEPT !.status = status, !.reloads = @ + 1]
    /\ pageFetches' = pageFetches
           + LoadTasksEpicFetches(WithTasks(InitialState, [status |-> status]), reloadTasks)
    /\ UNCHANGED <<state, create, applied, db, pages>>

\* a GET /tasks is answered and its promise chain settles
PageRequestCompletes(response) ==
    /\ pageFetches > 0
    /\ pageFetches' = pageFetches - 1
    /\ load' = [load EXCEPT !.responses = Append(@, response),
                            !.emitted = Append(@, LoadOutcome(response))]
    /\ UNCHANGED <<state, create, applied, db, pages>>

ReloadReachesEpic == \E status \in Statuses : LoadEpicGetsReload(status)
PageRequestDone == \E response \in PageResponses : PageRequestCompletes(response)

NextLoadEpic ==
    \/ ReloadReachesEpic
    \/ PageRequestDone

SpecLoadEpic == InitLoadEpic /\ [][NextLoadEpic]_vars

(***************************************************************************)
(* C13: the epic emits exactly one action for each GET /tasks that         *)
(* completes: TASKS_RECEIVED with the items and the token of a 2xx body    *)
(* that has an items array and a nextPageToken field, with the items and   *)
(* null when the field is absent, with no items and null when items is     *)
(* missing or no array, and TASKS_LOADING_FAILED for a non-2xx status or a *)
(* network error.                                                          *)
(***************************************************************************)
C13_OneActionPerPageResponse ==
    /\ Len(load.emitted) = Len(load.responses)
    /\ pageFetches + Len(load.emitted) <= load.reloads
    /\ \A i \in 1..Len(load.responses) :
           LET response == load.responses[i]
               action == load.emitted[i]
           IN  IF response.fetch = "rejected" \/ ~response.ok
               THEN /\ action.type = "TASKS_LOADING_FAILED"
                    /\ action.message \in {"Network Error", "HTTP Error"}
               ELSE response.json = "object" =>
                    IF "items" \notin DOMAIN response.body THEN action = tasksReceived(<<>>, "null")
                    ELSE IF ~response.body.items.isArray THEN action = tasksReceived(<<>>, "null")
                    ELSE IF "nextPageToken" \notin DOMAIN response.body
                         THEN action = tasksReceived(response.body.items.elements, "null")
                    ELSE action = tasksReceived(response.body.items.elements,
                                                response.body.nextPageToken)

\* two requests were answered, one with a page and a token and one without
\* an items array, and each has given its one action
C13_Witness ==
    /\ pageFetches = 0
    /\ Len(load.emitted) = 2
    /\ \E i, j \in 1..2, x \in ReceivedTasks :
           /\ load.emitted[i] = tasksReceived(<<x>>, "token")
           /\ load.responses[j] = Decoded([items |-> OtherValue, nextPageToken |-> "token"])
           /\ load.emitted[j] = tasksReceived(<<>>, "null")


----------------------------------------------------------------------------
(* The selector of the task list. An object enumerates its keys in the     *)
(* order they were added; the model keeps no such order with items, so     *)
(* Object.keys(items) is any enumeration of the keys.                      *)

RECURSIVE Enumerations(_)
Enumerations(keys) ==
    IF keys = {} THEN {<<>>}
    ELSE UNION {{<<k>> \o rest : rest \in Enumerations(keys \ {k})} : k \in keys}

RECURSIVE Digits(_)
\* the code units of the decimal digits of n
Digits(n) == IF n < 10 THEN <<48 + n>> ELSE Digits(n \div 10) \o <<48 + (n % 10)>>

\* the UTF-16 code units of an id: "t" is 116 and "r" is 114
CodeUnits(id) ==
    IF id \in TempIds
    THEN <<116>> \o Digits(CHOOSE i \in 1..MaxCreates : id = "t" \o ToString(i))
    ELSE <<114>> \o Digits(CHOOSE i \in 1..MaxCreates : id = "r" \o ToString(i))

\* the order sort() puts strings in when it is given no comparator: that of
\* their code units, a prefix before the strings it begins
StringBelow(a, b) ==
    LET x == CodeUnits(a)
        y == CodeUnits(b)
    IN  \/ \E i \in 1..Len(x) :
               /\ i <= Len(y)
               /\ x[i] < y[i]
               /\ \A j \in 1..(i - 1) : x[j] = y[j]
        \/ /\ Len(x) < Len(y)
           /\ \A j \in 1..Len(x) : x[j] = y[j]

RECURSIVE Insert(_, _)
Insert(sorted, key) ==
    IF sorted = <<>> THEN <<key>>
    ELSE IF StringBelow(key, Head(sorted)) THEN <<key>> \o sorted
    ELSE <<Head(sorted)>> \o Insert(Tail(sorted), key)

\* a selector that maps the keys as the object enumerates them
SortLeavesOrder(keys) == keys

RECURSIVE Sort(_)
\* keys.sort()
Sort(keys) == IF keys = <<>> THEN <<>> ELSE Insert(Sort(Tail(keys)), Head(keys))

\* makeGetTasks(): the selector's result, for the order Object.keys gives
makeGetTasks(items, keys) ==
    LET sorted == Sort(keys)
    IN  [i \in 1..Len(sorted) |-> items[sorted[i]]]

(***************************************************************************)
(* C14: the selector returns every entry of items exactly once, in         *)
(* ascending order of the keys, and the same sequence whatever the order   *)
(* the keys were added in.                                                 *)
(***************************************************************************)
C14_SelectorSortsByKey ==
    \E order \in Enumerations(DOMAIN Items) :
        /\ Len(order) = Cardinality(DOMAIN Items)
        /\ \A i \in 1..(Len(order) - 1) : StringBelow(order[i], order[i + 1])
        /\ \A keys \in Enumerations(DOMAIN Items) :
               makeGetTasks(Items, keys) = [i \in 1..Len(order) |-> Items[order[i]]]

\* three tasks, the pending one added before the two of a page that the
\* selector puts first
C14_Witness ==
    /\ \E t \in TempIds : \E r, q \in RealIds :
           /\ DOMAIN Items = {t, r, q}
           /\ StringBelow(r, q)
           /\ Items[t].isCreating
           /\ makeGetTasks(Items, <<t, q, r>>) = <<Items[r], Items[q], Items[t]>>
           /\ makeGetTasks(Items, <<q, t, r>>) = <<Items[r], Items[q], Items[t]>>


----------------------------------------------------------------------------
(* The store with its requests answered: a clearNewTask() that is due is   *)
(* emitted and a POST that is pending gets its response. A GET /tasks that *)
(* is pending would be answered as well; the store issues none.            *)

FairSpec == Spec /\ WF_vars(ClearNewTaskEmitted) /\ WF_vars(CreateRequestDone)

(***************************************************************************)
(* C16: whenever the status is LOADING it is LOADED or ERROR at some later *)
(* time, every request the store has issued being answered.                *)
(***************************************************************************)
C16_LoadingEventuallyEnds ==
    (state.tasks.status = "LOADING") ~> (state.tasks.status \in {"LOADED", "ERROR"})


(***************************************************************************)
(* C18: when CREATE_NEW_TASK(T) is dispatched, the text of the POST and    *)
(* the text of the task the reducer puts under T are both the text of the  *)
(* new task at that time, which the dispatch leaves in place; the          *)
(* clearNewTask() of the workflow is applied in a later step and changes   *)
(* neither.                                                                *)
(***************************************************************************)
Started(t) == create[t].pc = "idle" /\ create'[t].pc = "clear"

C18_RequestTextIsOptimisticText ==
    [][\A t \in TempIds :
           /\ Started(t) =>
                  /\ create'[t].text = getNewTaskText(state)
                  /\ t \in DOMAIN Items'
                  /\ Items'[t].text = getNewTaskText(state)
                  /\ getNewTaskText(state') = getNewTaskText(state)
           /\ Cleared(t) =>
                  /\ create'[t].text = create[t].text
                  /\ t \in DOMAIN Items => /\ t \in DOMAIN Items'
                                           /\ Items'[t] = Items[t]
                  /\ getNewTaskText(state') = ""]_vars

\* the POST carries the text "a" of the task under its temporary id, and the
\* text of the new task has been cleared since
C18_Witness ==
    \E t \in TempIds :
        /\ create[t].pc = "inflight"
        /\ create[t].text = "a"
        /\ t \in DOMAIN Items
        /\ Items[t].text = "a"
        /\ getNewTaskText(state) = ""


(***************************************************************************)
(* C19: every entry of items is a complete task stored under its own id:   *)
(* it has a text and an isComplete field, and its _id is its key.          *)
(***************************************************************************)
C19_EntriesAreCompleteTasks ==
    \A k \in DOMAIN Items :
        /\ {"_id", "text", "isComplete"} \subseteq DOMAIN Items[k]
        /\ Items[k]._id = k

(***************************************************************************)
(* C20: when the POSTs of two temporary ids are both pending, the state    *)
(* after both are answered and the actions of both workflows are applied   *)
(* is the same whichever is answered first, whatever the two answers.      *)
(***************************************************************************)
\* the answers to a POST whose record the server stored under realId
ResponsesWithId(realId) ==
    {NetworkError, HttpError, Undecodable, Decoded(EmptyObject),
     Decoded([item |-> EmptyObject]), Decoded([item |-> [_id |-> realId]])}

\* the state after the workflow of first and then that of second have ended
AfterBoth(first, second) == reducer(reducer(state, first), second)

C20_CompletionOrderIsIrrelevant ==
    \A t, u \in TempIds :
        t # u /\ create[t].pc = "inflight" /\ create[u].pc = "inflight" =>
            \A a, b \in RealIds \ AssignedIds :
                a # b =>
                    \A answer \in ResponsesWithId(a), other \in ResponsesWithId(b) :
                        AfterBoth(CreateOutcome(t, answer), CreateOutcome(u, other))
                            = AfterBoth(CreateOutcome(u, other), CreateOutcome(t, answer))

====
